---- MODULE Spec2Model ----
(***************************************************************************)
(* Model of werlang/helper-package: the WebSocket RPC client (WSClient),   *)
(* the WebSocket RPC server (WSServer), their wire protocol, and the       *)
(* Pledge helper.                                                          *)
(*                                                                         *)
(* Granularity: JavaScript is single threaded and run-to-completion, so    *)
(* one action is one task of the event loop (a public method call, a       *)
(* transport event, a timer callback) together with the promise            *)
(* continuations (microtasks) it releases.  A transport failure delivers   *)
(* its error event and its close event in one task.                        *)
(***************************************************************************)
EXTENDS Integers, Sequences, FiniteSets, TLC

\* ------------------------------------------------------------------ bounds
MaxSockets == 4      \* sockets a client may create in a run of Spec
MaxCallSockets == 2  \* sockets a client may create in a run of ReqSpec, SubSpec
MaxOpens   == 1      \* user open() calls in a run
MaxReq     == 2      \* send() calls in a run
MaxSub     == 1      \* stream() calls in a run
MaxId      == 2      \* distinct message ids Math.random may produce
MaxCb      == 2      \* callback invocations counted per subscription
MaxRaw     == 1      \* addListener() calls made by the user in a run
MaxConns   == 2      \* connections the server has accepted
MaxSrvId   == 1      \* ids carried by the frames the server receives
MaxKept    == 2      \* reply callbacks handlers hold at one time
MaxPledges == 1      \* Pledge objects constructed
MaxNatives == 1      \* plain promises handed to Pledge.all
MaxWatch   == 2      \* get() and timeout() calls in a run
MaxItems   == 3      \* length of the array given to Pledge.all
MaxConnectCalls == 2 \* connect() calls of the user in a run of ConnectSpec
MaxThen    == 2      \* then() calls in a run

Sockets == 1..MaxSockets
Ids     == 1..MaxId
Data    == {"a"}
Undef   == "undefined"

VARIABLES
    reconnect,        \* this.reconnect (constructor option)
    isOpen,           \* this.isOpen
    isConnecting,     \* this._isConnecting
    shouldReconnect,  \* this._shouldReconnect
    socket,           \* this.socket (index of the current socket)
    nSock,            \* number of sockets created so far
    phase,            \* transport state of every socket
    attached,         \* socket still carries onclose/onerror/onmessage
    timers,           \* pending setTimeout(() => this.connect(), 1000)
    waiters,          \* promises created by open(), registration order
    opens,            \* user open() calls
    onMessageListeners, \* this.onMessageListeners
    req,              \* send() calls
    sub,              \* stream() calls
    raw,              \* listeners the user registered with addListener
    origin,           \* history: who created the current socket
    closeCalled,      \* history: close() called, no explicit connect() since
    unhandled,        \* history: a promise rejected with nobody handling it
    methodList,       \* WSServer: this.methodList (own properties)
    replies,          \* WSServer: reply callbacks that handlers still hold
    last,             \* WSServer: history, what the last step of the server did
    latest,           \* WSServer: history, the callback of the latest on(m, .)
                      \* and whether an on(m, .) replaced another callback
    pledge,           \* Pledge: this.promise of every Pledge, with history
    natives,          \* plain promises that are not Pledges
    watch,            \* Pledge: promises returned by get() and timeout()
    join,             \* Pledge: the promise returned by Pledge.all
    rejections,       \* history: the promises that have rejected, in time order
    trip,             \* a request('echo', p) from the client to the server and back
    openError,        \* what the promise of every user open() call rejected with
    connectCalls,     \* history: connect() calls the user has made
    dispatched,       \* history: what onmessage did with the last frame
    thens,            \* Pledge: the then() calls, their callbacks and promises
    onConnectCallback, \* this.onConnectCallback is set
    notified          \* history: calls of the callback of onConnect

vars == <<reconnect, isOpen, isConnecting, shouldReconnect, socket, nSock,
          phase, attached, timers, waiters, opens, onMessageListeners, req,
          sub, raw, origin, closeCalled, unhandled, methodList, replies, last,
          latest, pledge, natives, watch, join, rejections, trip, openError,
          connectCalls, dispatched, thens, onConnectCallback, notified>>

svars == <<methodList, replies, last, latest>>
pvars == <<pledge, natives, watch, join, rejections>>
cvars == <<onConnectCallback, notified>>
evars == <<trip, openError, connectCalls, dispatched, thens, cvars>>

conn0 == <<reconnect, isOpen, isConnecting, shouldReconnect, socket, nSock,
           phase, attached, timers, origin, closeCalled, unhandled>>
conn  == <<conn0, svars, pvars, evars>>
calls == <<waiters, opens, onMessageListeners, req, sub, raw>>

\* ------------------------------------------------------------ value space
None == "-"
\* a send() call: sock is the socket its error listener is on (line 154),
\* hit and by are history (see Hit)
NoReq == [st |-> "none", id |-> 0, sock |-> 0, result |-> None, hit |-> None,
          by |-> None]
\* a stream() call: cb counts the calls of its callback, stopped and late
\* are history (stop function called; callback called after that), and so
\* is sock, the socket its envelope was sent on
NoSub == [st |-> "none", id |-> 0, stopped |-> FALSE, cb |-> 0, late |-> FALSE,
          sock |-> 0]

\* Text frames the transport can deliver to the client: a success envelope
\* {id, data}, an error envelope {error:true, message, id}, the JSON text
\* "null", and text that is not JSON.
Frames ==
    [kind : {"success"}, id : Ids, data : Data \cup {Undef}]
      \cup [kind : {"error"}, id : Ids, data : {Undef}]
      \cup {[kind |-> "null", id |-> 0, data |-> Undef],
            [kind |-> "garbage", id |-> 0, data |-> Undef]}

ErrorOf(s) == [err |-> s]          \* the error event of socket s
InvalidState == [err |-> 0]        \* send() on a socket that is CONNECTING
NoError == [err |-> -1]            \* nothing was thrown

Handle(k, i) == [kind |-> k, ix |-> i]
Waiter(k, i, s) == [kind |-> k, ix |-> i, sock |-> s]

OffSocket(s) == SelectSeq(waiters, LAMBDA w : w.sock # s)
Has(seq, k, i) == \E n \in 1..Len(seq) : seq[n].kind = k /\ seq[n].ix = i

\* ------------------------------------------------------------ WSClient
\* a removeListener that removes nothing
removeNothing(ls, h) == ls

\* removeListener: filter by identity, a fresh array is stored
removeListener(ls, h) == SelectSeq(ls, LAMBDA l : l # h)

\* addListener: push
addListener(ls, h) == Append(ls, h)

\* connect() without the guard of line 34
connectUnguarded == FALSE

\* line 34: connect() returns at once while an attempt is in progress
connectGuard == isConnecting

\* handlers that reschedule only when the connection had been open
reconnectIfWasOpen(s) == attached[s] /\ shouldReconnect /\ isOpen

\* lines 49 and 57 inside the handlers connect() puts on socket s (the
\* handlers are gone once a later connect() has set them to null)
reconnectScheduled(s) == attached[s] /\ shouldReconnect

\* connect(), lines 35-73, once the guard of line 34 has let it through
connect(by, max) ==
    /\ nSock < max
    /\ isConnecting' = TRUE
    /\ shouldReconnect' = reconnect
    /\ attached' = [attached EXCEPT ![socket] = FALSE, ![nSock + 1] = TRUE]
    /\ phase' = [phase EXCEPT ![nSock + 1] = "connecting"]
    /\ socket' = nSock + 1
    /\ nSock' = nSock + 1
    /\ isOpen' = FALSE
    /\ waiters' = Append(waiters, Waiter("connect", 0, nSock + 1))
    /\ origin' = by

\* The body of send()'s promise executor (lines 136-154) for request r:
\* _send on the current socket, addListener, error listener on this.socket.
\* ph is the transport state at the time the executor runs.
SendThrows(ph) == ph[socket] = "connecting"

StartSend(r, ph) ==
    IF SendThrows(ph)
    THEN [r EXCEPT !.st = "rejected", !.result = InvalidState]
    ELSE [r EXCEPT !.st = "pending", !.sock = socket]

\* stream() after its await (lines 168-182)
StartStream(k, ph) ==
    IF SendThrows(ph)
    THEN [k EXCEPT !.st = "failed"]
    ELSE [k EXCEPT !.st = "active", !.sock = socket]

\* a transport whose events reach none of the listeners open() added
OnSocketDeaf(s) == <<>>

\* the open() promises whose onOpen and onError listeners (lines 104-105)
\* are on socket s, in the order of their addEventListener calls
OnSocket(s) == SelectSeq(waiters, LAMBDA w : w.sock = s)

\* listeners that the continuations released on socket s register, in order
Registered(ws, ph) ==
    LET keep == SelectSeq(ws, LAMBDA w : w.kind \in {"send", "stream"}
                                          /\ ~SendThrows(ph))
    IN [n \in 1..Len(keep) |->
          Handle(IF keep[n].kind = "send" THEN "req" ELSE "sub", keep[n].ix)]

\* transport event 'open' on socket s: every onOpen registered on s runs
\* (lines 89-98) and calls the callback of onConnect if there is one, then
\* the continuations of the promises they resolved
SocketOpen(s) ==
    /\ phase[s] = "connecting"
    /\ LET ws == OnSocket(s)
           ph == [phase EXCEPT ![s] = "open"] IN
       /\ phase' = ph
       /\ isOpen' = IF ws # <<>> THEN TRUE ELSE isOpen
       /\ isConnecting' = IF Has(ws, "connect", 0) THEN FALSE ELSE isConnecting
       /\ waiters' = OffSocket(s)
       /\ opens' = [i \in 1..MaxOpens |->
                      IF Has(ws, "open", i)
                      THEN "resolved" ELSE opens[i]]
       /\ req' = [r \in 1..MaxReq |->
                    IF Has(ws, "send", r) THEN StartSend(req[r], ph) ELSE req[r]]
       /\ sub' = [k \in 1..MaxSub |->
                    IF Has(ws, "stream", k) THEN StartStream(sub[k], ph) ELSE sub[k]]
       /\ onMessageListeners' = onMessageListeners \o Registered(ws, ph)
       /\ notified' = IF onConnectCallback THEN notified + Len(ws) ELSE notified
    /\ UNCHANGED <<reconnect, shouldReconnect, socket, nSock, attached, timers,
                   raw, origin, closeCalled, unhandled>>
    /\ UNCHANGED <<svars, pvars>>
    /\ UNCHANGED <<trip, openError, connectCalls, dispatched, thens,
                   onConnectCallback>>

\* send() without its error listener
ErroredIgnored(s) == req

\* effect of errorHandler (lines 150-153) of every request sent on socket s
Errored(s) ==
    [r \in 1..MaxReq |->
       IF req[r].st = "pending" /\ req[r].sock = s
       THEN [req[r] EXCEPT !.st = "rejected", !.result = ErrorOf(s)]
       ELSE req[r]]

\* listener l belongs to a request whose errorHandler is on socket s
HasErrorHandler(l, s) ==
    l.kind = "req" /\ Errored(s)[l.ix] # req[l.ix]

\* a transport failure of socket s: the 'error' event (handleError lines
\* 46-52, onError lines 99-103 of every waiter on s, errorHandler lines
\* 150-153 of every request sent on s) followed by the 'close' event
\* (lines 54-60)
SocketFail(s) ==
    /\ phase[s] \in {"connecting", "aborting", "open", "closing"}
    /\ LET ws == OnSocket(s) IN
       /\ phase' = [phase EXCEPT ![s] = "failed"]
       /\ isOpen' = IF attached[s] THEN FALSE ELSE isOpen
       /\ timers' = IF reconnectScheduled(s) THEN timers + 2 ELSE timers
       /\ isConnecting' = IF Has(ws, "connect", 0) THEN FALSE ELSE isConnecting
       /\ unhandled' = IF Has(ws, "connect", 0) THEN TRUE ELSE unhandled
       /\ waiters' = OffSocket(s)
       /\ opens' = [i \in 1..MaxOpens |->
                      IF Has(ws, "open", i)
                      THEN "rejected" ELSE opens[i]]
       /\ openError' = [i \in 1..MaxOpens |->
                          IF Has(ws, "open", i)
                          THEN ErrorOf(s) ELSE openError[i]]
       /\ req' = [r \in 1..MaxReq |->
                    IF Has(ws, "send", r)
                    THEN [req[r] EXCEPT !.st = "rejected", !.result = ErrorOf(s)]
                    ELSE Errored(s)[r]]
       /\ sub' = [k \in 1..MaxSub |->
                    IF Has(ws, "stream", k)
                    THEN [sub[k] EXCEPT !.st = "failed"] ELSE sub[k]]
       /\ onMessageListeners' =
             SelectSeq(onMessageListeners, LAMBDA l : ~HasErrorHandler(l, s))
    /\ UNCHANGED <<reconnect, shouldReconnect, socket, nSock, attached, raw,
                   origin, closeCalled>>
    /\ UNCHANGED <<svars, pvars, trip, connectCalls, dispatched, thens, cvars>>

\* transport event 'close' alone (the peer or close() ended an open
\* connection): onclose, lines 54-60
SocketClose(s) ==
    /\ phase[s] \in {"open", "closing"}
    /\ phase' = [phase EXCEPT ![s] = "closed"]
    /\ isOpen' = IF attached[s] THEN FALSE ELSE isOpen
    /\ timers' = IF reconnectScheduled(s) THEN timers + 1 ELSE timers
    /\ UNCHANGED <<reconnect, isConnecting, shouldReconnect, socket, nSock,
                   attached, origin, closeCalled, unhandled>>
    /\ UNCHANGED <<svars, pvars, evars>>
    /\ UNCHANGED calls

\* the callback of setTimeout(() => this.connect(), 1000), lines 50 and 58
TimerFires(max) ==
    /\ timers > 0
    /\ timers' = timers - 1
    /\ IF connectGuard
       THEN UNCHANGED <<isOpen, isConnecting, shouldReconnect, socket, nSock,
                        phase, attached, waiters, origin>>
       ELSE connect("timer", max)
    /\ UNCHANGED <<reconnect, opens, onMessageListeners, req, sub, raw,
                   closeCalled, unhandled>>
    /\ UNCHANGED <<svars, pvars, evars>>

\* the user calls connect()
UserConnect(max) ==
    /\ ~connectGuard
    /\ connect("user", max)
    /\ closeCalled' = FALSE
    /\ UNCHANGED <<reconnect, timers, opens, onMessageListeners, req, sub, raw,
                   unhandled>>
    /\ UNCHANGED <<svars, pvars, evars>>

\* the user calls connect(), whatever the state of the client: lines 33-79
connectCall(max) ==
    /\ connectCalls < MaxConnectCalls
    /\ connectCalls' = connectCalls + 1
    /\ IF connectGuard
       THEN UNCHANGED <<isOpen, isConnecting, shouldReconnect, socket, nSock,
                        phase, attached, waiters, origin, closeCalled>>
       ELSE connect("user", max) /\ closeCalled' = FALSE
    /\ UNCHANGED <<reconnect, timers, opens, onMessageListeners, req, sub, raw,
                   unhandled>>
    /\ UNCHANGED <<svars, pvars, trip, openError, dispatched, thens, cvars>>

\* onConnect(callback), lines 189-191
onConnect ==
    /\ ~onConnectCallback
    /\ onConnectCallback' = TRUE
    /\ UNCHANGED <<conn0, calls, svars, pvars>>
    /\ UNCHANGED <<trip, openError, connectCalls, dispatched, thens, notified>>

\* close(), lines 214-219
close ==
    /\ shouldReconnect' = FALSE
    /\ phase' = [phase EXCEPT ![socket] =
                    CASE phase[socket] = "connecting" -> "aborting"
                      [] phase[socket] = "open" -> "closing"
                      [] OTHER -> phase[socket]]
    /\ closeCalled' = TRUE
    /\ UNCHANGED <<reconnect, isOpen, isConnecting, socket, nSock, attached,
                   timers, origin, unhandled>>
    /\ UNCHANGED <<svars, pvars, evars>>
    /\ UNCHANGED calls

\* open() called by the user, lines 86-107
open(i) ==
    /\ opens[i] = "none"
    /\ \A j \in 1..(i - 1) : opens[j] # "none"
    /\ IF isOpen
       THEN /\ opens' = [opens EXCEPT ![i] = "resolved"]
            /\ UNCHANGED waiters
       ELSE /\ opens' = [opens EXCEPT ![i] = "pending"]
            /\ waiters' = Append(waiters, Waiter("open", i, socket))
    /\ UNCHANGED conn
    /\ UNCHANGED <<onMessageListeners, req, sub, raw>>

\* send(method, data), lines 133-156; id is what Math.random will yield
send(id) ==
    \E r \in 1..MaxReq :
       /\ req[r].st = "none"
       /\ \A q \in 1..(r - 1) : req[q].st # "none"
       /\ IF isOpen
          THEN /\ req' = [req EXCEPT ![r] = StartSend([NoReq EXCEPT !.id = id], phase)]
               /\ onMessageListeners' =
                     IF SendThrows(phase) THEN onMessageListeners
                     ELSE addListener(onMessageListeners, Handle("req", r))
               /\ UNCHANGED waiters
          ELSE /\ req' = [req EXCEPT ![r] =
                             [NoReq EXCEPT !.st = "waiting", !.id = id]]
               /\ waiters' = Append(waiters, Waiter("send", r, socket))
               /\ UNCHANGED onMessageListeners
       /\ UNCHANGED conn
       /\ UNCHANGED <<opens, sub, raw>>

\* stream(method, data, callback), lines 166-183
stream(id) ==
    \E k \in 1..MaxSub :
       /\ sub[k].st = "none"
       /\ \A q \in 1..(k - 1) : sub[q].st # "none"
       /\ IF isOpen
          THEN /\ sub' = [sub EXCEPT ![k] = StartStream([NoSub EXCEPT !.id = id], phase)]
               /\ onMessageListeners' =
                     IF SendThrows(phase) THEN onMessageListeners
                     ELSE addListener(onMessageListeners, Handle("sub", k))
               /\ UNCHANGED waiters
          ELSE /\ sub' = [sub EXCEPT ![k] =
                             [NoSub EXCEPT !.st = "waiting", !.id = id]]
               /\ waiters' = Append(waiters, Waiter("stream", k, socket))
               /\ UNCHANGED onMessageListeners
       /\ UNCHANGED conn
       /\ UNCHANGED <<opens, req, raw>>

\* the function stream() returned (line 182), applied to a registry/sub pair
stopFn(k, st) ==
    [st EXCEPT !.ls = removeListener(st.ls, Handle("sub", k)),
               !.sub = [st.sub EXCEPT ![k].stopped = TRUE]]

\* the user calls the stop function of subscription k
stop(k) ==
    /\ sub[k].st = "active"
    /\ LET st == stopFn(k, [ls |-> onMessageListeners, sub |-> sub, req |-> req]) IN
       /\ onMessageListeners' = st.ls
       /\ sub' = st.sub
    /\ UNCHANGED conn
    /\ UNCHANGED <<waiters, opens, req, raw>>

\* the user registers a listener of their own with addListener (line 198);
\* what it does when a frame arrives is the user's code
userAddListener(j) ==
    /\ raw[j] = "none"
    /\ raw' = [raw EXCEPT ![j] = "on"]
    /\ onMessageListeners' = addListener(onMessageListeners, Handle("raw", j))
    /\ UNCHANGED conn
    /\ UNCHANGED <<waiters, opens, req, sub>>

\* a listener that looks at the error member and skips error envelopes
ParsedSuccessOnly(f) ==
    IF f.kind \in {"garbage", "null", "error"}
    THEN [threw |-> TRUE, id |-> 0, data |-> Undef]
    ELSE [threw |-> FALSE, id |-> f.id, data |-> f.data]

\* JSON.parse(event.data) followed by the destructuring of lines 144 / 176:
\* "threw" covers text that is not JSON (caught, the listener returns) and
\* the JSON value null (TypeError, caught by the dispatch loop)
Parsed(f) ==
    IF f.kind \in {"garbage", "null"}
    THEN [threw |-> TRUE, id |-> 0, data |-> Undef]
    ELSE [threw |-> FALSE, id |-> f.id, data |-> f.data]

\* a listener that takes any parsed reply for its own
MatchesAny(responseId, messageId) == TRUE

\* line 145 / 177: responseId === messageId
Matches(responseId, messageId) == responseId = messageId

\* the listener send() registered for request r, lines 137-149
ReqListener(r, f, st) ==
    LET p == Parsed(f) IN
    IF p.threw \/ ~Matches(p.id, st.req[r].id) THEN st
    ELSE [st EXCEPT
            !.req = [st.req EXCEPT ![r] =
                       IF @.st = "pending"
                       THEN [@ EXCEPT !.st = "resolved", !.result = p.data, !.sock = 0]
                       ELSE @],
            !.ls = removeListener(st.ls, Handle("req", r))]

\* the listener stream() registered for subscription k, lines 169-180
SubListener(k, f, st) ==
    LET p == Parsed(f) IN
    IF p.threw \/ ~Matches(p.id, st.sub[k].id) THEN st
    ELSE [st EXCEPT !.sub = [st.sub EXCEPT
                               ![k].cb = @ + 1,
                               ![k].late = @ \/ st.sub[k].stopped]]

\* act of a listener of the user that registers another listener
Adding == -2

\* a listener of the user: here one that may call a stop function it holds
\* (act = k: it calls the stop function of subscription k, act = 0: none)
\* or call addListener (act = Adding: listener j registers a listener of its
\* own, once)
RawListener(j, f, act, st) ==
    IF act \in 1..MaxSub /\ st.sub[act].st = "active"
    THEN stopFn(act, st)
    ELSE IF act = Adding /\ ~Has(st.ls, "added", j)
    THEN [st EXCEPT !.ls = addListener(st.ls, Handle("added", j))]
    ELSE st

Invoke(l, f, act, st) ==
    CASE l.kind = "req" -> ReqListener(l.ix, f, st)
      [] l.kind = "sub" -> SubListener(l.ix, f, st)
      [] l.kind = "raw" -> RawListener(l.ix, f, act, st)
      [] l.kind = "added" -> st

\* act of a listener of the user that throws
Throwing == -1

\* listener l throws when it is called with frame f: the listeners of
\* send() and stream() destructure the JSON value null (lines 144, 176),
\* a listener of the user throws when its code does
Throws(l, f, act) ==
    \/ l.kind \in {"req", "sub"} /\ f.kind = "null"
    \/ l.kind = "raw" /\ act = Throwing

\* lines 65-69: the call of one listener inside try/catch; got and caught
\* are history, the listeners called and the ones whose exception was
\* caught
TryInvoke(l, f, act, st) ==
    [Invoke(l, f, act, st) EXCEPT
        !.got = Append(@, l),
        !.caught = IF Throws(l, f, act) THEN Append(@, l) ELSE @]

\* a forEach whose callback has no try/catch: an exception ends the loop
RestUncaught(snap, f, act) ==
    IF Throws(Head(snap), f, act) THEN <<>> ELSE Tail(snap)

\* the listeners forEach (line 64) still has to call after the first of snap
Rest(snap, f, act) == Tail(snap)

\* a loop over the registry as it is at each step: a listener that has been
\* removed is passed over
RemainingLive(snap, st) ==
    SelectSeq(snap, LAMBDA l : Has(st.ls, l.kind, l.ix))

\* the listeners of the array forEach was called on that are still to be
\* called: removeListener stores another array (line 208) and addListener
\* appends past the range forEach fixed when it started (line 200), so the
\* registry st.ls as it is now does not count
Remaining(snap, st) == snap

\* onmessage, lines 63-71: forEach over the array that is the registry when
\* the frame arrives; removeListener stores a new array, so the loop goes on
\* over the old one
RECURSIVE Dispatch(_, _, _, _)
Dispatch(snap, f, act, st) ==
    LET todo == Remaining(snap, st) IN
    IF todo = <<>> THEN st
    ELSE Dispatch(Rest(todo, f, act), f, act, TryInvoke(Head(todo), f, act, st))

\* history: the data and the form of the first frame delivered with the id
\* of request r while r was pending
Hit(f) ==
    [r \in 1..MaxReq |->
       IF /\ req[r].st = "pending" /\ req[r].hit = None
          /\ f.kind \in {"success", "error"} /\ f.id = req[r].id
       THEN [req[r] EXCEPT !.hit = f.data, !.by = f.kind] ELSE req[r]]

\* the handler of line 63 called with frame f
onmessage(f, act) ==
    Dispatch(onMessageListeners, f, act,
             [ls |-> onMessageListeners, req |-> Hit(f), sub |-> sub,
              got |-> <<>>, caught |-> <<>>])

\* transport event 'message' on socket s with frame f, st the outcome of
\* the handler
Arrives(s, st) ==
    /\ phase[s] = "open"
    /\ attached[s]
    /\ \A k \in 1..MaxSub : st.sub[k].cb <= MaxCb
    /\ onMessageListeners' = st.ls
    /\ req' = st.req
    /\ sub' = st.sub
    /\ UNCHANGED <<conn0, svars, pvars>>
    /\ UNCHANGED <<waiters, opens, raw>>

Message(s, f, act) == Arrives(s, onmessage(f, act)) /\ UNCHANGED evars

\* the same event with its history kept: the registry when the frame
\* arrived, the listeners called, the exceptions caught, and whether an
\* exception had been caught for an earlier frame
NoDispatch ==
    [snap |-> <<>>, got |-> <<>>, after |-> <<>>, caught |-> <<>>,
     earlier |-> FALSE]

MessageTraced(s, f, act) ==
    LET st == onmessage(f, act) IN
    /\ Arrives(s, st)
    /\ dispatched' = [snap |-> onMessageListeners, got |-> st.got,
                      after |-> st.ls,
                      caught |-> st.caught,
                      earlier |-> dispatched.earlier \/ dispatched.caught # <<>>]
    /\ UNCHANGED <<trip, openError, connectCalls, thens, cvars>>

\* ------------------------------------------------------------ WSServer
Conns == 1..MaxConns

\* names on() is called with, and names every object literal inherits from
\* Object.prototype (this.methodList = {} , line 16)
Registrable == {"echo", "other"}
Inherited == {"constructor", "__proto__"}
MethodNames == Registrable \cup Inherited \cup {"unknown"}

\* what a function given to on() may do with (payload, reply):
\*   echo            reply(payload)
\*   fail            throw
\*   replyThenThrow  reply(payload), then throw
\*   silent          return without calling reply
\*   replyCircular   reply(x) with an x JSON.stringify rejects (a cycle, a
\*                   BigInt): line 46 throws inside the reply callback
\*   streamer        keep reply and call it later, any number of times,
\*                   with the data "a"
SyncHandlers == {"echo", "fail", "replyThenThrow", "silent", "replyCircular"}
Handlers == SyncHandlers \cup {"streamer"}

\* text frames a connection can deliver: text that is not JSON, the JSON
\* value null, another JSON value that is not an object (number, string,
\* array), and an object whose method is absent, a number, or a string
SrvIds == 0..MaxSrvId                   \* 0: the frame has no id
SrvFrames ==
    [kind : {"garbage", "null", "scalar"}, mtype : {"absent"}, method : {""},
     payload : {Undef}, id : {0}]
      \cup [kind : {"object"}, mtype : {"absent", "number"}, method : {""},
            payload : {Undef}, id : SrvIds]
      \cup [kind : {"object"}, mtype : {"string"},
            method : (MethodNames \ Registrable) \cup {""},
            payload : {Undef}, id : SrvIds]
      \cup [kind : {"object"}, mtype : {"string"}, method : Registrable,
            payload : {Undef, "a"}, id : SrvIds]

SuccessEnv(id, data) == [form |-> "success", message |-> None, id |-> id, data |-> data]
ErrorEnv(msg, id) == [form |-> "error", message |-> msg, id |-> id, data |-> Undef]

NoStep == [op |-> "none", conn |-> 0, frame |-> None, sent |-> <<>>, to |-> 0,
           raised |-> FALSE, invoked |-> None, threw |-> FALSE]

\* this.methodList[method], line 43: an own property set by on(), or what
\* the object literal inherits
Lookup(m) ==
    IF m \in Registrable /\ methodList[m] # None THEN methodList[m]
    ELSE IF m = "constructor" THEN "Object"
    ELSE IF m = "__proto__" THEN "prototype"
    ELSE None

\* the call of line 45 with the reply callback of lines 45-47: the success
\* envelopes written while the callee runs, whether it throws, and whether
\* it keeps the reply callback
Call(h, payload, id) ==
    CASE h = "echo" -> [sent |-> <<SuccessEnv(id, payload)>>, throws |-> FALSE, keeps |-> FALSE]
      [] h = "fail" -> [sent |-> <<>>, throws |-> TRUE, keeps |-> FALSE]
      [] h = "replyThenThrow" -> [sent |-> <<SuccessEnv(id, payload)>>, throws |-> TRUE, keeps |-> FALSE]
      [] h = "silent" -> [sent |-> <<>>, throws |-> FALSE, keeps |-> FALSE]
      [] h = "replyCircular" -> [sent |-> <<>>, throws |-> TRUE, keeps |-> FALSE]
      [] h = "streamer" -> [sent |-> <<>>, throws |-> FALSE, keeps |-> TRUE]
      \* Object(payload, reply) returns a value and calls nothing
      [] h = "Object" -> [sent |-> <<>>, throws |-> FALSE, keeps |-> FALSE]
      \* Object.prototype is not a function: TypeError
      [] h = "prototype" -> [sent |-> <<>>, throws |-> TRUE, keeps |-> FALSE]

\* a server whose try block has no catch clause that answers
CaughtSilently(c, id) == c.sent

\* lines 44-50: what has been written to ws when the try statement is left
Caught(c, id) ==
    IF c.throws
    THEN Append(c.sent, ErrorEnv("Method handler error", id))
    ELSE c.sent

\* handleMessage(ws, message), lines 30-54: the envelopes written to ws,
\* whether an exception leaves handleMessage, the callee and whether the
\* callee threw
handleMessage(f) ==
    IF f.kind = "garbage"
    THEN [sent |-> <<ErrorEnv("Malformed JSON", 0)>>, raised |-> FALSE,
          invoked |-> None, keeps |-> FALSE, threw |-> FALSE]
    ELSE IF f.kind = "null"        \* line 38 destructures null: TypeError
    THEN [sent |-> <<>>, raised |-> TRUE, invoked |-> None, keeps |-> FALSE,
          threw |-> FALSE]
    ELSE IF f.mtype # "string" \/ f.method = ""
    THEN [sent |-> <<ErrorEnv("Missing or invalid method", f.id)>>,
          raised |-> FALSE, invoked |-> None, keeps |-> FALSE, threw |-> FALSE]
    ELSE IF Lookup(f.method) # None
    THEN LET c == Call(Lookup(f.method), f.payload, f.id) IN
         [sent |-> Caught(c, f.id), raised |-> FALSE,
          invoked |-> Lookup(f.method), keeps |-> c.keeps, threw |-> c.throws]
    ELSE [sent |-> <<ErrorEnv("Method not found", f.id)>>, raised |-> FALSE,
          invoked |-> None, keeps |-> FALSE, threw |-> FALSE]

\* a server that answers on the connection it wrote to last
replyToLast(ws) == last.to

\* lines 18-21 and 45-47: the reply callback and the catch clause write to
\* the ws of the connection whose 'message' listener called handleMessage
replyTo(ws) == ws

\* the 'message' listener of connection c (lines 19-21) runs handleMessage
Served(c, f) ==
    LET h == handleMessage(f) IN
    /\ h.keeps => Cardinality(replies) < MaxKept
    /\ last' = [op |-> "frame", conn |-> c, frame |-> f, sent |-> h.sent,
                to |-> replyTo(c), raised |-> h.raised, invoked |-> h.invoked,
                threw |-> h.threw]
    /\ replies' = IF h.keeps
                  THEN replies \cup {[conn |-> c, id |-> f.id]}
                  ELSE replies
    /\ UNCHANGED <<methodList, latest>>
    /\ UNCHANGED <<conn0, calls, pvars>>

\* a frame arrives that no request of the modelled client is waiting on
Receive(c, f) == Served(c, f) /\ UNCHANGED evars

\* a handler calls, after handleMessage has returned, the reply callback it
\* kept (lines 45-47); it may keep it for further replies or drop it
LaterReply(r, keep) ==
    /\ r \in replies
    /\ last' = [op |-> "later", conn |-> r.conn, frame |-> None,
                sent |-> <<SuccessEnv(r.id, "a")>>, to |-> replyTo(r.conn),
                raised |-> FALSE, invoked |-> "streamer", threw |-> FALSE]
    /\ replies' = IF keep THEN replies ELSE replies \ {r}
    /\ UNCHANGED <<methodList, latest>>
    /\ UNCHANGED <<conn0, calls, pvars, evars>>

\* a table that keeps the callback a name was first registered with
assignOnce(ml, m, h) == IF ml[m] = None THEN [ml EXCEPT ![m] = h] ELSE ml

\* line 62: this.methodList[method] = callback
assignMethod(ml, m, h) == [ml EXCEPT ![m] = h]

\* on(method, callback), lines 61-63
on(m, h) ==
    /\ methodList' = assignMethod(methodList, m, h)
    /\ latest' = [latest EXCEPT ![m] = [now |-> h,
                                       replaced |-> @.replaced
                                                     \/ @.now \notin {None, h}]]
    /\ last' = [NoStep EXCEPT !.op = "on"]
    /\ UNCHANGED replies
    /\ UNCHANGED <<conn0, calls, pvars, evars>>

\* ------------------------------------------------- the wire format
\* JavaScript values a caller may pass as payload: undefined, null, a
\* boolean, a number (NaN among them), a string, and an object with no
\* member or with the one member k.  v is the content of a scalar, m the
\* members of an object.
Val(t, v) == [t |-> t, v |-> v, m |-> <<>>]
Obj(ms) == [t |-> "object", v |-> "", m |-> ms]
Undefined == Val("undefined", "")
Null == Val("null", "")
NaN == Val("number", "NaN")
ExactScalars ==
    {Null, Val("boolean", "true"), Val("number", "1"), Val("string", "a"),
     Val("string", "null")}
Scalars == ExactScalars \cup {NaN}
Payloads ==
    {Undefined} \cup Scalars \cup {Obj(<<>>)} \cup {Obj(<<x>>) : x \in Scalars}

\* the JSON text of a string
Quote(str) == IF str = "a" THEN "\"a\"" ELSE "\"null\""

\* a JSON.stringify that leaves out a member whose value is null
stringifyDropNull(x) ==
    CASE x.t \in {"undefined", "null"} -> <<>>
      [] x.t = "boolean" -> <<x.v>>
      [] x.t = "number" -> IF x.v = "NaN" THEN <<"null">> ELSE <<x.v>>
      [] x.t = "string" -> <<Quote(x.v)>>

\* JSON.stringify of a scalar that is the value of a member (lines 118-122
\* of the client, line 46 of the server), as the tokens of the text; no
\* token: the member is left out
stringifyScalar(x) ==
    CASE x.t = "undefined" -> <<>>
      [] x.t = "null" -> <<"null">>
      [] x.t = "boolean" -> <<x.v>>
      [] x.t = "number" -> IF x.v = "NaN" THEN <<"null">> ELSE <<x.v>>
      [] x.t = "string" -> <<Quote(x.v)>>

\* JSON.stringify of the value of a member
stringify(x) ==
    IF x.t # "object" THEN stringifyScalar(x)
    ELSE <<"{">>
           \o (IF x.m = <<>> \/ stringifyScalar(x.m[1]) = <<>> THEN <<>>
               ELSE <<"k:">> \o stringifyScalar(x.m[1]))
           \o <<"}">>

\* JSON.parse of a scalar token
parseScalar(tok) ==
    CASE tok = "null" -> Null
      [] tok = "true" -> Val("boolean", "true")
      [] tok = "1" -> Val("number", "1")
      [] OTHER -> Val("string", CHOOSE str \in {"a", "null"} : Quote(str) = tok)

\* what destructuring reads for a member of the parsed text (line 38 of
\* the server, line 144 of the client); no token: the member is absent and
\* the variable is undefined
parse(text) ==
    IF text = <<>> THEN Undefined
    ELSE IF Head(text) = "{"
    THEN Obj(IF Len(text) = 2 THEN <<>> ELSE <<parseScalar(text[3])>>)
    ELSE parseScalar(text[1])

\* one request from send() to its resolution; by is history: the callee
\* the server invoked for it
NoTrip == [st |-> "none", p |-> Undefined, id |-> 0, up |-> None,
           down |-> None, result |-> Undefined, by |-> None]

\* send(method, data) on an open connection: _send, lines 116-124, writes
\* the envelope {id, method, payload}
EchoRequest(id, m, p) ==
    /\ trip.st = "none"
    /\ trip' = [trip EXCEPT !.st = "sent", !.p = p, !.id = id,
                            !.up = [id |-> id, method |-> m,
                                    payload |-> stringify(p)]]
    /\ UNCHANGED <<conn0, calls, svars, pvars, openError, connectCalls,
                   dispatched, thens, cvars>>

\* the text the server writes for an envelope, line 46 and lines 35, 40,
\* 49, 52
EnvelopeText(env) ==
    [kind |-> env.form, id |-> env.id,
     data |-> IF env.form = "error" THEN <<>> ELSE stringify(env.data)]

\* the frame of the request reaches the server on connection c: lines
\* 32-38 parse it, the rest of handleMessage answers it
EchoServe(c) ==
    /\ trip.st = "sent"
    /\ LET f == [kind |-> "object", mtype |-> "string",
                 method |-> trip.up.method, payload |-> parse(trip.up.payload),
                 id |-> trip.up.id]
           h == handleMessage(f) IN
       /\ Served(c, f)
       /\ UNCHANGED <<openError, connectCalls, dispatched, thens, cvars>>
       /\ trip' = IF h.sent = <<>>
                  THEN [trip EXCEPT !.st = "unanswered", !.by = h.invoked]
                  ELSE [trip EXCEPT !.st = "answered", !.by = h.invoked,
                                    !.down = EnvelopeText(h.sent[1])]

\* the reply reaches the listener of send(), lines 137-149
EchoDeliver ==
    /\ trip.st = "answered"
    /\ LET r == Parsed([kind |-> trip.down.kind, id |-> trip.down.id,
                        data |-> parse(trip.down.data)]) IN
       trip' = IF ~r.threw /\ Matches(r.id, trip.id)
               THEN [trip EXCEPT !.st = "resolved", !.result = r.data]
               ELSE [trip EXCEPT !.st = "ignored"]
    /\ UNCHANGED <<conn0, calls, svars, pvars, openError, connectCalls,
                   dispatched, thens, cvars>>

\* ------------------------------------------------------------ Pledge
\* (the class at the end of src/test/driver/wsserver.test.js)
Pledges == 1..MaxPledges
Natives == 1..MaxNatives

Values  == {"v1", "v2"}        \* what resolve() is called with
Reasons == {"r1", "r2"}        \* what reject() is called with
Timeout == "Request Timeout"   \* line 451

\* the state of a promise
Pending == [st |-> "pending", val |-> None]
Fulfilled(v) == [st |-> "fulfilled", val |-> v]
Rejected(e) == [st |-> "rejected", val |-> e]

\* what the code that owns a plain promise settles it with
NativeOutcomes == {Fulfilled("v3"), Rejected("r3")}
\* values in the array of Pledge.all that are not promises
PlainValues == {"v4"}

\* a promise whose resolving functions overwrite an earlier outcome
settleAlways(pr, out) == out

\* the resolving functions of a promise (this._resolve, this._reject of
\* lines 421-424, and the ones inside Promise.race): the first call settles
\* the promise, a later call does nothing
settle(pr, out) == IF pr = Pending THEN out ELSE pr

\* new Pledge(), lines 420-425; first and later are history: the first
\* resolve()/reject() call, and whether a later call asked for something else
NoCall == [st |-> "none", val |-> None]
NewPledge == [out |-> Pending, first |-> NoCall, later |-> FALSE]

\* a timeout() whose timer rejects nothing
timerIgnored(w) == w.out

\* line 451: the timer of timeout() rejects its arm of the race
timerReject(w) == settle(w.out, Rejected(Timeout))

\* a promise that follows this.promise (the one get() returns, line 444, and
\* the race of line 448) once this.promise is in state now; won is history:
\* which arm of the race settled first
follow(w, now) ==
    IF now = Pending THEN w
    ELSE [w EXCEPT !.out = settle(@, now),
                   !.won = IF @ = None THEN "pledge" ELSE @]

\* the elements of the array given to Pledge.all
Item(k, i) == [kind |-> k, ix |-> i, val |-> None]

ItemSet ==
    {Item("pledge", p) : p \in Pledges}
      \cup {Item("promise", j) : j \in Natives}
      \cup [kind : {"value"}, ix : {0}, val : PlainValues]

ItemLists ==
    {l \in UNION {[1..n -> ItemSet] : n \in 0..MaxItems} :
        \A a, b \in DOMAIN l : a # b => l[a] # l[b]}

\* an all() that hands the Pledge itself to Promise.all, which then calls
\* its then() (lines 456-459) with two functions, the second of which is
\* dropped
ItemOutUnmapped(it, pl, nat) ==
    CASE it.kind = "pledge" ->
           IF pl[it.ix].out.st = "rejected" THEN Pending ELSE pl[it.ix].out
      [] it.kind = "promise" -> nat[it.ix]
      [] it.kind = "value" -> Fulfilled(it.val)

\* line 430: item instanceof Pledge ? item.get() : item, as Promise.all
\* sees it
ItemOut(it, pl, nat) ==
    CASE it.kind = "pledge" -> pl[it.ix].out
      [] it.kind = "promise" -> nat[it.ix]
      [] it.kind = "value" -> Fulfilled(it.val)

\* the promise of Pledge.all; by and had are history: the place in the
\* array of the element whose completion settled it (0: it settled inside
\* the call), and how many promises had rejected when all() was called
NoJoin == [called |-> FALSE, items |-> <<>>, st |-> "pending", vals |-> <<>>,
           reason |-> None, by |-> 0, had |-> 0]

Place(items, it) ==
    IF \E n \in DOMAIN items : items[n] = it
    THEN CHOOSE n \in DOMAIN items : items[n] = it
    ELSE 0

Least(S) == CHOOSE n \in S : \A m \in S : n <= m

\* a Promise.all that fulfils as soon as one element has
JoinReadyAny(outs) == \E n \in DOMAIN outs : outs[n].st = "fulfilled"

\* Promise.all fulfils when its count of unresolved elements reaches zero
JoinReady(outs) == \A n \in DOMAIN outs : outs[n].st = "fulfilled"

\* Promise.all (line 428) over the mapped array, after the reactions that
\* are due have run.  It rejects with the first rejection that reaches it:
\* among elements already rejected when all() is called, a plain promise
\* reaches it before the promise of get(), which has to adopt this.promise
\* first, and elements of one kind reach it in array order.  it is the
\* element that has just completed.
Join(j, pl, nat, it) ==
    IF ~j.called \/ j.st # "pending" THEN j
    ELSE LET outs == [n \in DOMAIN j.items |-> ItemOut(j.items[n], pl, nat)]
             rejN == {n \in DOMAIN outs : j.items[n].kind = "promise"
                                            /\ outs[n].st = "rejected"}
             rejP == {n \in DOMAIN outs : j.items[n].kind = "pledge"
                                            /\ outs[n].st = "rejected"}
         IN IF rejN # {}
            THEN [j EXCEPT !.st = "rejected", !.reason = outs[Least(rejN)].val,
                           !.by = Place(j.items, it)]
            ELSE IF rejP # {}
            THEN [j EXCEPT !.st = "rejected", !.reason = outs[Least(rejP)].val,
                           !.by = Place(j.items, it)]
            ELSE IF JoinReady(outs)
            THEN [j EXCEPT !.st = "fulfilled",
                           !.vals = [n \in DOMAIN outs |-> outs[n].val],
                           !.by = Place(j.items, it)]
            ELSE j

\* history: promise it has just got outcome now
Noted(it, was, now) ==
    IF was = Pending /\ now.st = "rejected"
    THEN Append(rejections, it) ELSE rejections

\* line 457, this.promise.then(callback), once this.promise is in state
\* now: a fulfilment calls the callback with the value and fulfils the
\* promise then() of the promise returned with what the callback returns;
\* a rejection goes to that promise, which has no handler.  calls, arg and
\* early (registered before completion) are history.
react(t, now) ==
    CASE now.st = "pending" -> t
      [] now.st = "fulfilled" ->
           [t EXCEPT !.calls = @ + 1, !.arg = now.val, !.derived = Fulfilled(Undef)]
      [] now.st = "rejected" -> [t EXCEPT !.derived = now]

\* resolve(data) and reject(data), lines 435-441, with the reactions of the
\* promises that follow this.promise
Complete(p, out) ==
    LET now == settle(pledge[p].out, out)
        pl == [pledge EXCEPT ![p] =
                 [out |-> now,
                  first |-> IF @.first = NoCall THEN out ELSE @.first,
                  later |-> @.later \/ @.first \notin {NoCall, out}]]
    IN /\ pledge' = pl
       /\ watch' = [n \in DOMAIN watch |->
                       IF watch[n].p = p THEN follow(watch[n], now) ELSE watch[n]]
       /\ join' = Join(join, pl, natives, Item("pledge", p))
       /\ rejections' = Noted(Item("pledge", p), pledge[p].out, now)
       /\ thens' = [n \in DOMAIN thens |->
                       IF thens[n].p = p /\ pledge[p].out = Pending
                       THEN react(thens[n], now) ELSE thens[n]]
       /\ UNCHANGED natives
       /\ UNCHANGED <<conn0, calls, svars>>
       /\ UNCHANGED <<trip, openError, connectCalls, dispatched, cvars>>

resolve(p, v) == Complete(p, Fulfilled(v))

reject(p, e) == Complete(p, Rejected(e))

\* get(), lines 443-445; early is history: called before completion
get(p) ==
    /\ Len(watch) < MaxWatch
    /\ watch' = Append(watch,
                   follow([kind |-> "get", p |-> p, out |-> Pending,
                           timer |-> FALSE, won |-> None,
                           early |-> pledge[p].out = Pending],
                          pledge[p].out))
    /\ UNCHANGED <<pledge, natives, join, rejections>>
    /\ UNCHANGED <<conn0, calls, svars, evars>>

\* then(callback), lines 456-459; returned is what the call returns
then(p) ==
    /\ Len(thens) < MaxThen
    /\ thens' = Append(thens,
                   react([p |-> p, returned |-> Item("pledge", p), calls |-> 0,
                          arg |-> None, derived |-> Pending,
                          early |-> pledge[p].out = Pending],
                         pledge[p].out))
    /\ UNCHANGED pvars
    /\ UNCHANGED <<conn0, calls, svars>>
    /\ UNCHANGED <<trip, openError, connectCalls, dispatched, cvars>>

\* timeout(time), lines 447-454: the race and its timer
timeout(p) ==
    /\ Len(watch) < MaxWatch
    /\ watch' = Append(watch,
                   follow([kind |-> "timeout", p |-> p, out |-> Pending,
                           timer |-> TRUE, won |-> None,
                           early |-> pledge[p].out = Pending],
                          pledge[p].out))
    /\ UNCHANGED <<pledge, natives, join, rejections>>
    /\ UNCHANGED <<conn0, calls, svars, evars>>

\* the callback of the setTimeout of line 451
TimeoutElapses(n) ==
    /\ n \in DOMAIN watch
    /\ watch[n].timer
    /\ watch' = [watch EXCEPT ![n] =
                    [@ EXCEPT !.timer = FALSE,
                              !.out = timerReject(watch[n]),
                              !.won = IF @ = None THEN "timer" ELSE @]]
    /\ UNCHANGED <<pledge, natives, join, rejections>>
    /\ UNCHANGED <<conn0, calls, svars, evars>>

\* Pledge.all(pledges), lines 427-433
all(items) ==
    /\ ~join.called
    /\ join' = Join([NoJoin EXCEPT !.called = TRUE, !.items = items,
                                   !.had = Len(rejections)],
                    pledge, natives, Item("none", 0))
    /\ UNCHANGED <<pledge, natives, watch, rejections>>
    /\ UNCHANGED <<conn0, calls, svars, evars>>

\* the owner of plain promise j settles it
settleNative(j, out) ==
    /\ natives[j] = Pending
    /\ natives' = [natives EXCEPT ![j] = settle(@, out)]
    /\ join' = Join(join, pledge, natives', Item("promise", j))
    /\ rejections' = Noted(Item("promise", j), natives[j], natives'[j])
    /\ UNCHANGED <<pledge, watch>>
    /\ UNCHANGED <<conn0, calls, svars, evars>>

\* ------------------------------------------------------- specification
\* the state new WSClient({url, reconnect}) leaves behind, lines 18-26
Init ==
    /\ reconnect \in BOOLEAN
    /\ isOpen = FALSE
    /\ isConnecting = TRUE
    /\ shouldReconnect = reconnect
    /\ socket = 1
    /\ nSock = 1
    /\ phase = [s \in Sockets |-> IF s = 1 THEN "connecting" ELSE "none"]
    /\ attached = [s \in Sockets |-> s = 1]
    /\ timers = 0
    /\ waiters = <<Waiter("connect", 0, 1)>>
    /\ opens = [i \in 1..MaxOpens |-> "none"]
    /\ onMessageListeners = <<>>
    /\ req = [r \in 1..MaxReq |-> NoReq]
    /\ sub = [k \in 1..MaxSub |-> NoSub]
    /\ raw = [j \in 1..MaxRaw |-> "none"]
    /\ origin = "ctor"
    /\ closeCalled = FALSE
    /\ unhandled = FALSE
    /\ methodList = [m \in Registrable |-> None]
    /\ replies = {}
    /\ last = NoStep
    /\ latest = [m \in Registrable |-> [now |-> None, replaced |-> FALSE]]
    /\ pledge = [p \in Pledges |-> NewPledge]
    /\ natives = [j \in Natives |-> Pending]
    /\ watch = <<>>
    /\ join = NoJoin
    /\ rejections = <<>>
    /\ trip = NoTrip
    /\ openError = [i \in 1..MaxOpens |-> NoError]
    /\ connectCalls = 0
    /\ dispatched = NoDispatch
    /\ thens = <<>>
    /\ onConnectCallback = FALSE
    /\ notified = 0

\* the connection life cycle and open()
Next ==
    \/ \E s \in Sockets : SocketOpen(s)
    \/ \E s \in Sockets : SocketFail(s)
    \/ \E s \in Sockets : SocketClose(s)
    \/ TimerFires(MaxSockets)
    \/ UserConnect(MaxSockets)
    \/ close
    \/ \E i \in 1..MaxOpens : open(i)

Spec == Init /\ [][Next]_vars

\* requests and their replies over a reconnecting client
ReqNext ==
    \/ \E s \in Sockets : SocketOpen(s)
    \/ \E s \in Sockets : SocketFail(s)
    \/ \E s \in Sockets : SocketClose(s)
    \/ TimerFires(MaxCallSockets)
    \/ \E id \in Ids : send(id)
    \/ \E s \in Sockets, f \in Frames : Message(s, f, 0)

ReqSpec == Init /\ [][ReqNext]_vars

\* subscriptions, their stop functions and listeners of the user
SubNext ==
    \/ \E s \in Sockets : SocketOpen(s)
    \/ \E s \in Sockets : SocketFail(s)
    \/ \E s \in Sockets : SocketClose(s)
    \/ TimerFires(MaxCallSockets)
    \/ \E id \in Ids : stream(id)
    \/ \E k \in 1..MaxSub : stop(k)
    \/ \E j \in 1..MaxRaw : userAddListener(j)
    \/ \E s \in Sockets, f \in Frames, act \in 0..MaxSub : Message(s, f, act)

SubSpec == Init /\ [][SubNext]_vars

\* the server with handlers that finish inside their call: registrations
\* and the inbound frames of every connection
SrvNext ==
    \/ \E m \in Registrable, h \in SyncHandlers : on(m, h)
    \/ \E c \in Conns, f \in SrvFrames : Receive(c, f)

SrvInit == Init /\ reconnect = TRUE

SrvSpec == SrvInit /\ [][SrvNext]_vars

\* the server with handlers that reply after their call has returned, and
\* the frames that name a method on() may have been called with
StreamFrames ==
    {f \in SrvFrames : f.method \in Registrable /\ f.payload = "a"}

StreamNext ==
    \/ \E m \in Registrable, h \in {"echo", "streamer"} : on(m, h)
    \/ \E c \in Conns, f \in StreamFrames : Receive(c, f)
    \/ \E r \in replies, keep \in BOOLEAN : LaterReply(r, keep)

StreamSpec == SrvInit /\ [][StreamNext]_vars

\* the connection life cycle alone; the event loop runs the callback of
\* every timer that is due
LiveNext ==
    \/ \E s \in Sockets : SocketOpen(s)
    \/ \E s \in Sockets : SocketFail(s)
    \/ \E s \in Sockets : SocketClose(s)
    \/ TimerFires(MaxSockets)
    \/ UserConnect(MaxSockets)
    \/ close

LiveSpec == Init /\ [][LiveNext]_vars /\ WF_vars(TimerFires(MaxSockets))

\* Pledges with the promises of their get() and timeout() calls
PledgeNext ==
    \/ \E p \in Pledges, v \in Values : resolve(p, v)
    \/ \E p \in Pledges, e \in Reasons : reject(p, e)
    \/ \E p \in Pledges : get(p)
    \/ \E p \in Pledges : timeout(p)
    \/ \E n \in 1..MaxWatch : TimeoutElapses(n)

PledgeInit == Init /\ reconnect = FALSE

PledgeSpec == PledgeInit /\ [][PledgeNext]_vars

\* Pledges with callbacks registered by then() and promises of get()
ThenNext ==
    \/ \E p \in Pledges, v \in Values : resolve(p, v)
    \/ \E p \in Pledges, e \in Reasons : reject(p, e)
    \/ \E p \in Pledges : get(p)
    \/ \E p \in Pledges : then(p)

ThenSpec == PledgeInit /\ [][ThenNext]_vars

\* Pledge.all over Pledges, plain promises and plain values; every Pledge
\* is completed with a value or a reason that tells it from its neighbour
OwnValue(p) == IF p % 2 = 1 THEN "v1" ELSE "v2"
OwnReason(p) == IF p % 2 = 1 THEN "r1" ELSE "r2"

AllNext ==
    \/ \E p \in Pledges : resolve(p, OwnValue(p))
    \/ \E p \in Pledges : reject(p, OwnReason(p))
    \/ \E j \in Natives, out \in NativeOutcomes : settleNative(j, out)
    \/ \E items \in ItemLists : all(items)

AllSpec == PledgeInit /\ [][AllNext]_vars

\* connect() and open() called at any time, with a listener registry that
\* is in use
ConnectNext ==
    \/ \E s \in Sockets : SocketOpen(s)
    \/ \E s \in Sockets : SocketFail(s)
    \/ \E s \in Sockets : SocketClose(s)
    \/ TimerFires(MaxCallSockets)
    \/ connectCall(MaxCallSockets)
    \/ close
    \/ \E i \in 1..MaxOpens : open(i)
    \/ \E j \in 1..MaxRaw : userAddListener(j)

ConnectSpec == Init /\ [][ConnectNext]_vars

\* requests over a client whose socket the user replaces with connect()
StaleFrames == [kind : {"success"}, id : Ids, data : Data]

StaleNext ==
    \/ \E s \in Sockets : SocketOpen(s)
    \/ \E s \in Sockets : SocketFail(s)
    \/ \E s \in Sockets : SocketClose(s)
    \/ UserConnect(MaxCallSockets)
    \/ \E id \in Ids : send(id)
    \/ \E s \in Sockets, f \in StaleFrames : Message(s, f, 0)

StaleSpec == Init /\ [][StaleNext]_vars

\* the callback of onConnect with open() calls waiting for the connection
NotifyNext ==
    \/ \E s \in Sockets : SocketOpen(s)
    \/ \E s \in Sockets : SocketFail(s)
    \/ \E s \in Sockets : SocketClose(s)
    \/ TimerFires(MaxCallSockets)
    \/ \E i \in 1..MaxOpens : open(i)
    \/ \E id \in Ids : send(id)
    \/ onConnect

NotifySpec == Init /\ [][NotifyNext]_vars

\* requests on the socket of the constructor, settled by replies or by a
\* transport error
SettleFrames == [kind : {"success"}, id : Ids, data : Data \cup {Undef}]

SettleNext ==
    \/ \E s \in Sockets : SocketOpen(s)
    \/ \E s \in Sockets : SocketFail(s)
    \/ \E id \in Ids : send(id)
    \/ \E s \in Sockets, f \in SettleFrames : Message(s, f, 0)

SettleSpec == Init /\ [][SettleNext]_vars

\* transport failures and the reconnect timers alone: every socket but the
\* first is created by a timer
RetryNext ==
    \/ \E s \in Sockets : SocketOpen(s)
    \/ \E s \in Sockets : SocketFail(s)
    \/ \E s \in Sockets : SocketClose(s)
    \/ TimerFires(MaxSockets)

RetrySpec == Init /\ [][RetryNext]_vars

\* frames and listeners that throw; every request has the id 1
ThrowFrames ==
    {[kind |-> "success", id |-> 1, data |-> "a"],
     [kind |-> "null", id |-> 0, data |-> Undef]}

ListenNext ==
    \/ \E s \in Sockets : SocketOpen(s)
    \/ send(1)
    \/ \E j \in 1..MaxRaw : userAddListener(j)
    \/ \E s \in Sockets, f \in ThrowFrames, act \in {Throwing, 0} :
          MessageTraced(s, f, act)

ListenSpec == Init /\ [][ListenNext]_vars

\* listeners that change the registry while a frame is dispatched: a
\* listener of the user stops the first subscription or registers another
\* listener; every frame has the id 1
SnapFrames == {[kind |-> "success", id |-> 1, data |-> "a"]}

SnapNext ==
    \/ \E s \in Sockets : SocketOpen(s)
    \/ \E id \in Ids : stream(id)
    \/ \E j \in 1..MaxRaw : userAddListener(j)
    \/ \E s \in Sockets, f \in SnapFrames, act \in {Adding, 0, 1} :
          MessageTraced(s, f, act)

SnapSpec == Init /\ [][SnapNext]_vars

\* one request over an open connection to a server, with every payload
EchoNext ==
    \/ \E h \in {"echo", "silent"} : on("echo", h)
    \/ \E id \in Ids, m \in Registrable, p \in Payloads : EchoRequest(id, m, p)
    \/ \E c \in Conns : EchoServe(c)
    \/ EchoDeliver

EchoSpec == SrvInit /\ [][EchoNext]_vars

\* ------------------------------------------------------------- properties
InFlight(r) == req[r].st = "pending"

\* C1: every request that has resolved resolved with the data of the first
\* reply delivered with its own id while it was in flight, every request for
\* which such a reply was delivered has resolved, and so no reply with
\* another id resolves a request: whatever the order of the replies.
C1_Correlation ==
    \A r \in 1..MaxReq :
       /\ req[r].st = "resolved" => req[r].hit # None /\ req[r].result = req[r].hit
       /\ req[r].hit # None => req[r].st = "resolved"

\* two requests with distinct ids were in flight together and the reply to
\* the second one arrived first
C1_Witness ==
    /\ req[1].st = "pending" /\ req[2].st = "resolved"
    /\ req[1].id # req[2].id
    /\ req[2].result = "a"

\* C2: once the stop function of a subscription has been called, its
\* callback is never invoked again.
C2_NoCallbackAfterStop == \A k \in 1..MaxSub : ~sub[k].late

\* C3: after close(), no reconnect timer creates a new socket.
C3_NoAutoConnectAfterClose ==
    [][closeCalled => ~(nSock' > nSock /\ origin' = "timer")]_vars

\* C4: when the client is open, no open() call is still waiting.
C4_OpenResolves == isOpen => \A i \in 1..MaxOpens : opens[i] # "pending"

\* C5: whenever the current socket has closed or failed, with the reconnect
\* option on and no close() call, the client is marked not open and a new
\* socket is eventually created (or close() is called meanwhile).
Disconnected(n) ==
    /\ nSock = n /\ phase[socket] \in {"closed", "failed"}
    /\ reconnect /\ ~closeCalled

C5_Reconnects ==
    /\ [](\A n \in Sockets : Disconnected(n) => ~isOpen)
    /\ \A n \in 1..(MaxSockets - 1) :
          Disconnected(n) ~> (nSock > n \/ closeCalled)

\* the first socket failed before it opened, a reconnect timer created the
\* second one, which opened and was then closed by the peer, and a timer
\* created the third
C5_Witness ==
    /\ nSock = 3 /\ origin = "timer" /\ reconnect /\ ~closeCalled
    /\ phase[1] = "failed" /\ phase[2] = "closed" /\ unhandled

\* C6: at most one socket of the client is in its connecting phase.
Attempts == {s \in Sockets : phase[s] \in {"connecting", "aborting"}}

C6_OneAttempt == Cardinality(Attempts) <= 1

\* both timers of one failure have fired and only one socket was created
C6_Witness ==
    /\ nSock = 2 /\ phase[1] = "failed" /\ phase[2] = "connecting"
    /\ timers = 0 /\ origin = "timer"

\* C7: no request stays pending on a socket that has reported an error; a
\* request that was rejected after it was sent was rejected with the error
\* of the socket it was sent on, and its listener is not in the registry.
C7_RejectedOnError ==
    \A r \in 1..MaxReq :
       /\ InFlight(r) => phase[req[r].sock] # "failed"
       /\ (req[r].st = "rejected" /\ req[r].sock # 0) =>
             /\ phase[req[r].sock] = "failed"
             /\ req[r].result = ErrorOf(req[r].sock)
             /\ ~Has(onMessageListeners, "req", r)

\* a request sent on an open socket was rejected by the error of that
\* socket while another request, sent later on the next socket, is pending
C7_Witness ==
    /\ req[1].st = "rejected" /\ req[1].sock = 1 /\ req[1].hit = None
    /\ req[2].st = "pending" /\ req[2].sock = 2

\* C8: no rejection raised inside the client goes unhandled.
C8_AllHandled == ~unhandled

\* C9: the envelopes sent for a handled frame are all of one form, and
\* there is at least one unless the handler kept the reply callback.
FormsSent == {last.sent[n].form : n \in DOMAIN last.sent}

C9_ExactlyOneForm ==
    last.op = "frame" =>
       \/ Cardinality(FormsSent) = 1
       \/ FormsSent = {} /\ last.invoked = "streamer"

\* C10: handleMessage raises for no frame, and a frame that reaches no
\* handler is answered with an envelope.
C10_NeverRaises ==
    last.op = "frame" =>
       /\ ~last.raised
       /\ last.invoked = None => last.sent # <<>>

\* C11: a frame whose method is a non-empty string that on() was never
\* called with (a name Object.prototype defines included) invokes nothing
\* and is answered with exactly one error envelope 'Method not found'
\* carrying the frame's id.
NeverRegistered(f) ==
    /\ f.kind = "object" /\ f.mtype = "string" /\ f.method # ""
    /\ f.method \in Registrable => latest[f.method].now = None

C11_UnknownMethod ==
    (last.op = "frame" /\ NeverRegistered(last.frame)) =>
       /\ last.invoked = None
       /\ last.sent = <<ErrorEnv("Method not found", last.frame.id)>>

\* C12: a frame that is not JSON is answered with exactly one error
\* envelope 'Malformed JSON' without id, a frame that is JSON but has no
\* method or a method that is not a string with exactly one error envelope
\* 'Missing or invalid method' and the frame's id, and neither invokes
\* anything.
C12_Validation ==
    last.op = "frame" =>
       /\ last.frame.kind = "garbage" =>
             /\ last.sent = <<ErrorEnv("Malformed JSON", 0)>>
             /\ last.invoked = None
       /\ (last.frame.kind # "garbage" /\ last.frame.mtype # "string") =>
             /\ last.sent = <<ErrorEnv("Missing or invalid method", last.frame.id)>>
             /\ last.invoked = None

\* C13: when the registered handler throws during its call, the last
\* envelope handleMessage writes is the error envelope 'Method handler
\* error' with the frame's id, and handleMessage does not raise.
C13_HandlerThrowAnswered ==
    (last.op = "frame" /\ last.invoked \in Handlers /\ last.threw) =>
       /\ ~last.raised
       /\ last.sent # <<>>
       /\ last.sent[Len(last.sent)] = ErrorEnv("Method handler error", last.frame.id)

\* the reply callback threw inside the handler, which let it through
C13_Witness ==
    /\ last.op = "frame" /\ last.invoked = "replyCircular" /\ last.threw
    /\ last.frame.id = 1
    /\ last.sent = <<ErrorEnv("Method handler error", 1)>>

\* C14: the table holds, for every name, the callback of the latest on()
\* call for that name, and a frame naming a registered method invokes that
\* callback and no other.
C14_LastWriterWins ==
    /\ \A m \in Registrable : methodList[m] = latest[m].now
    /\ (last.op = "frame" /\ last.frame.kind = "object"
          /\ last.frame.mtype = "string" /\ last.frame.method \in Registrable) =>
          last.invoked = latest[last.frame.method].now

\* a second on('echo', .) replaced the callback of the first, 'other' was
\* registered once, and a frame for 'echo' reached the second callback
C14_Witness ==
    /\ last.op = "frame" /\ last.frame.method = "echo"
    /\ latest["echo"] = [now |-> "fail", replaced |-> TRUE]
    /\ latest["other"] = [now |-> "silent", replaced |-> FALSE]
    /\ last.invoked = "fail"

\* C15: every envelope, whether written while a frame is handled or by a
\* reply callback called later, goes to the connection the frame arrived
\* on.
C15_OwnConnection ==
    last.op \in {"frame", "later"} => last.to = last.conn

\* two connections sent a frame with the same id to a handler that kept
\* both reply callbacks, and a later reply to the first frame was written
\* to the first connection
C15_Witness ==
    /\ last.op = "later" /\ last.conn = 1 /\ last.to = 1
    /\ \E r \in replies : r.conn = 2 /\ r.id = last.sent[1].id

\* C16: a request whose id comes back in an error envelope resolves with
\* undefined; it is neither rejected nor left pending.
C16_ErrorEnvelopeResolves ==
    \A r \in 1..MaxReq :
       req[r].by = "error" => req[r].st = "resolved" /\ req[r].result = Undef

\* the first of two requests in flight was answered with an error envelope
C16_Witness ==
    /\ req[1].by = "error" /\ req[1].st = "resolved" /\ req[1].result = Undef
    /\ req[2].st = "pending"

\* C17: an error envelope that carries the id of a pending request does
\* not resolve that request.
C17_ErrorEnvelopeIgnored ==
    \A r \in 1..MaxReq : req[r].by = "error" => req[r].st # "resolved"

\* C18: the outcome of a Pledge is the one its first resolve() or reject()
\* call asked for, whatever was called later, and every get() call, made
\* before or after completion, has that outcome (and none before it).
C18_FirstCallWins ==
    /\ \A p \in Pledges :
          pledge[p].out = IF pledge[p].first = NoCall THEN Pending
                          ELSE pledge[p].first
    /\ \A n \in DOMAIN watch :
          watch[n].kind = "get" => watch[n].out = pledge[watch[n].p].out

\* resolve('v1') came first and a call asking for something else followed;
\* one get() was called before completion and one after it
C18_Witness ==
    /\ pledge[1].first = Fulfilled("v1") /\ pledge[1].later
    /\ Len(watch) = 2
    /\ watch[1].kind = "get" /\ watch[1].p = 1 /\ watch[1].early
    /\ watch[2].kind = "get" /\ watch[2].p = 1 /\ ~watch[2].early
    /\ watch[1].out = Fulfilled("v1") /\ watch[2].out = Fulfilled("v1")

\* C19: the promise of a timeout() call has the Pledge's outcome when the
\* Pledge completed before the timer elapsed, is rejected with 'Request
\* Timeout' when the timer elapsed first, whatever the Pledge does after
\* that, and is pending while neither has happened.
C19_RaceWithTimer ==
    \A n \in DOMAIN watch :
       watch[n].kind = "timeout" =>
          /\ watch[n].won = "pledge" =>
                watch[n].out = pledge[watch[n].p].first
          /\ watch[n].won = "timer" => watch[n].out = Rejected(Timeout)
          /\ watch[n].won = None => watch[n].out = Pending

\* the timer of one timeout() elapsed and the Pledge was resolved after it;
\* a second timeout(), called before that, got the value
C19_Witness ==
    /\ Len(watch) = 2
    /\ watch[1].kind = "timeout" /\ watch[1].won = "timer"
    /\ watch[1].out = Rejected(Timeout)
    /\ watch[2].kind = "timeout" /\ watch[2].early /\ watch[2].won = "pledge"
    /\ watch[2].out = Fulfilled("v2")
    /\ watch[1].p = watch[2].p

\* C20: as long as no element of the array given to Pledge.all has
\* rejected, the combined promise is fulfilled exactly when every element
\* is complete, and then with the elements' values in array order, a plain
\* value standing for itself.
ItemOuts == [n \in DOMAIN join.items |-> ItemOut(join.items[n], pledge, natives)]

C20_AllInOrder ==
    (join.called /\ \A n \in DOMAIN ItemOuts : ItemOuts[n].st # "rejected") =>
       /\ join.st = IF \A n \in DOMAIN ItemOuts : ItemOuts[n].st = "fulfilled"
                    THEN "fulfilled" ELSE "pending"
       /\ join.st = "fulfilled" =>
             join.vals = [n \in DOMAIN ItemOuts |-> ItemOuts[n].val]

\* all([pledge, promise, 'v4']) was fulfilled by the completion of the
\* Pledge, the first of the array and the last to complete, with the three
\* values in array order
C20_Witness ==
    /\ join.called /\ Len(join.items) = 3
    /\ join.items[1].kind = "pledge" /\ join.items[2].kind = "promise"
    /\ join.items[3].kind = "value"
    /\ join.st = "fulfilled" /\ join.by = 1
    /\ join.vals = <<"v1", "v3", "v4">>

\* C21: once an element of the array given to Pledge.all has rejected, the
\* combined promise is rejected, with the reason of the element of the
\* array that rejected first in time.
RejectedItems == SelectSeq(rejections, LAMBDA it : Place(join.items, it) # 0)

ReasonOf(it) == ItemOut(it, pledge, natives).val

HadRejected ==
    {n \in DOMAIN join.items :
        \E k \in 1..join.had : rejections[k] = join.items[n]}

HadRejectedPlain == {n \in HadRejected : join.items[n].kind = "promise"}

HasNaN(p) == p = NaN \/ \E n \in DOMAIN p.m : p.m[n] = NaN
\* p with null where it has NaN
Nulled(p) ==
    IF p = NaN THEN Null
    ELSE [p EXCEPT !.m = [n \in DOMAIN p.m |-> IF p.m[n] = NaN THEN Null ELSE p.m[n]]]

EchoAnswered == trip.st = "resolved" /\ trip.by = "echo"

C22_WitnessUndefined ==
    EchoAnswered /\ trip.p = Undefined /\ trip.up.payload = <<>>
       /\ trip.result = Undefined

\* C23: at the step in which a socket that has not opened reports an
\* error, every open() call waiting on that socket is rejected with the
\* error of that socket, and no waiter registered on the socket is left.
C23_WaitersRejected ==
    [][\A s \in Sockets :
          (phase[s] \in {"connecting", "aborting"} /\ phase'[s] = "failed") =>
             /\ \A i \in 1..MaxOpens :
                   (\E n \in DOMAIN waiters : waiters[n] = Waiter("open", i, s)) =>
                      opens'[i] = "rejected" /\ openError'[i] = ErrorOf(s)
             /\ \A n \in DOMAIN waiters' : waiters'[n].sock # s]_vars

\* an open() call that waited on the first socket was rejected with its error
C23_Witness ==
    /\ phase[1] = "failed"
    /\ opens[1] = "rejected" /\ openError[1] = ErrorOf(1)
    /\ waiters = <<>>

\* C24: a connect() call made while a socket of the client is connecting
\* changes nothing: no socket is created, no handler is detached, and the
\* open flag, the reconnect flags, the pending timers, the waiters and
\* the listener registry are what they were.
C24_ConnectIdempotent ==
    [][(connectCalls' # connectCalls /\ Attempts # {}) =>
          UNCHANGED <<nSock, socket, phase, attached, isOpen, isConnecting,
                      shouldReconnect, timers, waiters, onMessageListeners>>]_vars

\* connect() was called while the socket of the constructor was connecting
C24_Witness ==
    /\ connectCalls = 2 /\ nSock = 1 /\ phase[1] = "connecting"
    /\ attached[1] /\ onMessageListeners = <<Handle("raw", 1)>>

\* the sockets connect() has replaced, and the step is an event of socket s
Prior == {s \in 1..nSock : s # socket}
EventOf(s) == phase'[s] # phase[s]

\* C25 (as claimed): once connect() has replaced the socket, no event of a
\* prior socket changes the state of the client, settles or rejects a
\* request, or schedules a reconnect.
C25_StaleSilent ==
    [][\A s \in Prior : EventOf(s) =>
          UNCHANGED <<isOpen, isConnecting, shouldReconnect, socket, nSock,
                      attached, timers, waiters, opens, onMessageListeners,
                      req, sub>>]_vars

\* C25 (amended): an event of a prior socket changes neither the flags of
\* the client nor its timers, waiters and subscriptions, and resolves no
\* request; what it changes is the requests that were sent on that socket
\* and are still pending: its error rejects them with that error and takes
\* their listeners out of the registry.
C25_StaleRejectsOnly ==
    [][\A s \in Prior : EventOf(s) =>
          /\ UNCHANGED <<isOpen, isConnecting, shouldReconnect, socket, nSock,
                         attached, timers, waiters, opens, sub>>
          /\ \A r \in 1..MaxReq :
                IF req[r].st = "pending" /\ req[r].sock = s /\ phase'[s] = "failed"
                THEN /\ req'[r].st = "rejected" /\ req'[r].result = ErrorOf(s)
                     /\ ~Has(onMessageListeners', "req", r)
                ELSE /\ req'[r] = req[r]
                     /\ Has(onMessageListeners', "req", r)
                           = Has(onMessageListeners, "req", r)]_vars

\* a request sent on the first socket was rejected by the error of that
\* socket after connect() had replaced it, while the second socket is open
C25_Witness ==
    /\ nSock = 2 /\ socket = 2 /\ origin = "user" /\ phase[2] = "open" /\ isOpen
    /\ phase[1] = "failed" /\ timers = 0
    /\ req[1].st = "rejected" /\ req[1].sock = 1 /\ req[1].result = ErrorOf(1)
    /\ onMessageListeners = <<>>

\* C26: an exception a message listener throws is caught: the frame goes
\* to every listener that was in the registry when it arrived, in order,
\* the ones after the throwing listener included; the listener that threw
\* stays registered, so later frames go to all listeners as well.
C26_ThrowCaught ==
    /\ dispatched.got = dispatched.snap
    /\ \A n \in DOMAIN dispatched.caught :
          \E m \in DOMAIN onMessageListeners :
             onMessageListeners[m] = dispatched.caught[n]

\* after a frame for which an exception was caught, the first listener in
\* the registry threw again and the one after it was called all the same
C26_Witness ==
    /\ dispatched.earlier
    /\ dispatched.snap = <<Handle("req", 1), Handle("raw", 1)>>
    /\ dispatched.caught = <<Handle("req", 1)>>
    /\ dispatched.got = <<Handle("req", 1), Handle("raw", 1)>>

\* C27: the listener of a request is in the registry exactly while the
\* request is pending, so it is gone once the first reply with its id has
\* been consumed or a transport error has rejected it, and a request that
\* is settled does not change any more: a second reply with its id has no
\* effect on it.
Settled(r) == req[r].st \in {"resolved", "rejected"}

C27_ListenerWhilePending ==
    [][\A r \in 1..MaxReq :
          /\ Has(onMessageListeners', "req", r) <=> req'[r].st = "pending"
          /\ Settled(r) => req'[r] = req[r]]_vars

\* two requests with the same id: the first reply resolved the first, a
\* second reply with other data resolved the second and left the first as
\* it was; no listener is left
C27_Witness ==
    /\ req[1].st = "resolved" /\ req[1].id = 1 /\ req[1].result = "a"
    /\ req[2].st = "resolved" /\ req[2].id = 1 /\ req[2].result = Undef
    /\ onMessageListeners = <<>>

\* C28: once the socket a subscription was made on has closed or failed,
\* the listener of the subscription is not in the registry, and the
\* callback of a subscription is invoked only for frames of the socket the
\* subscription was made on.
TornDown(k) == sub[k].sock # 0 /\ phase[sub[k].sock] \in {"closed", "failed"}

C28_GoneOnTeardown ==
    [][\A k \in 1..MaxSub :
          /\ TornDown(k)' => ~Has(onMessageListeners', "sub", k)
          /\ sub'[k].cb > sub[k].cb => sub[k].sock = socket]_vars

\* C29: then(callback) returns the Pledge it was called on; the callback
\* has been called once, with the value, if the Pledge is resolved and has
\* not been called otherwise; a rejection reaches every get() unchanged,
\* and the registration adds no failure: no promise created by then() is
\* rejected with nobody handling it.
C29_ThenFireAndForget ==
    /\ \A n \in DOMAIN thens :
          LET t == thens[n]
              out == pledge[t.p].out IN
          /\ t.returned = Item("pledge", t.p)
          /\ IF out.st = "fulfilled"
             THEN t.calls = 1 /\ t.arg = out.val
             ELSE t.calls = 0
          /\ t.derived.st # "rejected"
    /\ \A n \in DOMAIN watch :
          pledge[watch[n].p].out.st = "rejected" =>
             watch[n].out = pledge[watch[n].p].out

\* C30: when a socket of the client opens, the callback registered with
\* onConnect is called once, however many calls wait for the connection.
Opens(s) == phase[s] = "connecting" /\ phase'[s] = "open"

C30_OnConnectOnce ==
    [][\A s \in Sockets :
          (Opens(s) /\ onConnectCallback) => notified' = notified + 1]_vars

\* C31: a transport failure leads to at most one replacement socket (the
\* sockets the timers have created are no more than the sockets that have
\* failed or closed), and a reconnect timer never replaces a socket that
\* is open.
Dead == {s \in Sockets : phase[s] \in {"closed", "failed"}}

C31_OneReplacement ==
    [][/\ nSock' - 1 <= Cardinality(Dead')
       /\ (nSock' > nSock /\ origin' = "timer") => phase[socket] # "open"]_vars

\* C32: a frame is delivered, in the order of registration, to exactly the
\* listeners that are in the registry when its dispatch starts: a listener
\* that another listener removes during the dispatch still gets the frame,
\* one that is added during the dispatch does not, and the registry as the
\* dispatch leaves it is the one the next frame is delivered to.
In(seq, l) == \E n \in DOMAIN seq : seq[n] = l

C32_SnapshotDispatch ==
    [][dispatched' # dispatched =>
         /\ dispatched'.got = onMessageListeners
         /\ \A n \in DOMAIN dispatched'.after :
               ~In(onMessageListeners, dispatched'.after[n]) =>
                  ~In(dispatched'.got, dispatched'.after[n])
         /\ onMessageListeners' = dispatched'.after]_vars

\* a frame went to the listener an earlier dispatch had added and to the
\* listener of a subscription that the listener before it stopped during
\* this dispatch
C32_Witness ==
    /\ dispatched.snap =
          <<Handle("raw", 1), Handle("sub", 1), Handle("added", 1)>>
    /\ dispatched.got = dispatched.snap
    /\ dispatched.after = <<Handle("raw", 1), Handle("added", 1)>>

============================================================================
